---------------------------- MODULE Spec2Model ----------------------------
(***************************************************************************)
(* A model of src/index.js: the scroll/pointer driven scene of gyromitra.   *)
(*                                                                         *)
(* The file is glue between three runtimes, modelled by what the calls in   *)
(* index.js make them do:                                                   *)
(*   - react-spring: useSpring (spring signals), value.interpolate(range,   *)
(*     output) (piecewise-linear interpolation, extrapolation "extend"      *)
(*     unless an option says otherwise; index.js passes none);              *)
(*   - react-three-fiber: the render loop calling the useRender             *)
(*     subscribers in subscription order and then, unless a subscriber took *)
(*     the loop over, the default gl.render;                                *)
(*   - React: useState, and useEffect callbacks that run deferred, after    *)
(*     the render that scheduled them has been committed.                   *)
(* ./postprocessing/* and ./data are files of the repository that are not   *)
(* part of src/; what the model needs of them is stated where it is used.   *)
(*                                                                         *)
(* Numbers: JavaScript numbers are modelled as exact rationals <<n, d>>     *)
(* (d > 0), and the values the springs integrate as fixed-point integers    *)
(* (FixedOne units per 1.0).                                                *)
(***************************************************************************)
EXTENDS Integers, Sequences, FiniteSets, TLC

(***************************************************************************)
(* Rational arithmetic.  <<n, d>> with d > 0 is the number n/d in lowest    *)
(* terms; d = 0 marks a value that is not a number: NaN, or undefined.      *)
(***************************************************************************)
Abs(i) == IF i < 0 THEN -i ELSE i

RECURSIVE GCD(_, _)
GCD(a, b) == IF b = 0 THEN a ELSE GCD(b, a % b)

Norm(n, d) ==
    LET g == GCD(Abs(n), Abs(d))
        s == IF d < 0 THEN -1 ELSE 1
    IN  <<(s * n) \div g, (s * d) \div g>>

NaN == <<0, 0>>
Undefined == <<1, 0>>
IsNum(a) == a[2] # 0

R(i) == <<i, 1>>
Frac(n, d) == Norm(n, d)

RAdd(a, b) == IF IsNum(a) /\ IsNum(b) THEN Norm(a[1] * b[2] + b[1] * a[2], a[2] * b[2]) ELSE NaN
RSub(a, b) == IF IsNum(a) /\ IsNum(b) THEN Norm(a[1] * b[2] - b[1] * a[2], a[2] * b[2]) ELSE NaN
RMul(a, b) == IF IsNum(a) /\ IsNum(b) THEN Norm(a[1] * b[1], a[2] * b[2]) ELSE NaN
RDiv(a, b) ==
    IF IsNum(a) /\ IsNum(b) /\ b[1] # 0 THEN Norm(a[1] * b[2], a[2] * b[1]) ELSE NaN

\* JavaScript's comparisons: any comparison with NaN or undefined is false,
\* except undefined === undefined.
RLt(a, b) == IsNum(a) /\ IsNum(b) /\ a[1] * b[2] < b[1] * a[2]
RLe(a, b) == IsNum(a) /\ IsNum(b) /\ a[1] * b[2] <= b[1] * a[2]
RGe(a, b) == RLe(b, a)
RGt(a, b) == RLt(b, a)
StrictEq(a, b) ==
    \/ IsNum(a) /\ IsNum(b) /\ a = b
    \/ a = Undefined /\ b = Undefined

\* Math.round: the nearest integer, halves rounded up.
Round(a) == IF IsNum(a) THEN R((2 * a[1] + a[2]) \div (2 * a[2])) ELSE NaN

(***************************************************************************)
(* Interpolation, as value.interpolate(range, output) evaluates it.         *)
(* index.js passes neither extrapolate, extrapolateLeft nor                 *)
(* extrapolateRight, so both sides use the default.                         *)
(***************************************************************************)
DefaultExtrapolate == "extend"

\* output[i] of a JavaScript array (1-based here): undefined past its end.
At(arr, i) == IF i \in 1..Len(arr) THEN arr[i] ELSE Undefined

\* findRange: for (i = 1; i < range.length - 1; ++i) if (range[i] >= input) break;
\* return i - 1 (0-based).  Here the 1-based index of the segment's left end.
RECURSIVE FindRangeFrom(_, _, _)
FindRangeFrom(input, range, i) ==
    IF i < Len(range) - 1 /\ ~RGe(At(range, i + 1), input)
    THEN FindRangeFrom(input, range, i + 1)
    ELSE i
findRange(input, range) == FindRangeFrom(input, range, 1)

\* One segment: the input is clamped only under "clamp", returned as is
\* under "identity", and otherwise the segment's line is extended.
interpolateSegment(input, inputMin, inputMax, outputMin, outputMax, left, right) ==
    LET afterLeft ==
            IF RLt(input, inputMin) /\ left = "clamp" THEN inputMin ELSE input
        result ==
            IF RGt(afterLeft, inputMax) /\ right = "clamp" THEN inputMax ELSE afterLeft
    IN  IF RLt(input, inputMin) /\ left = "identity" THEN input
        ELSE IF RGt(afterLeft, inputMax) /\ right = "identity" THEN afterLeft
        ELSE IF StrictEq(outputMin, outputMax) THEN outputMin
        ELSE IF StrictEq(inputMin, inputMax)
             THEN (IF RLe(input, inputMin) THEN outputMin ELSE outputMax)
        ELSE RAdd(RMul(RDiv(RSub(result, inputMin), RSub(inputMax, inputMin)),
                       RSub(outputMax, outputMin)),
                  outputMin)

\* The interpolator of a numeric table [range, output].
interpolate(table, x) ==
    LET r == findRange(x, table.range)
    IN  interpolateSegment(x, At(table.range, r), At(table.range, r + 1),
                           At(table.output, r), At(table.output, r + 1),
                           DefaultExtrapolate, DefaultExtrapolate)

\* A table whose outputs are colours is interpolated channel by channel:
\* the three colour channels are rounded, alpha is not.
Channel(table, c) ==
    [range |-> table.range,
     output |-> [i \in 1..Len(table.output) |-> R(table.output[i][c])]]
interpolateColor(table, x) ==
    <<Round(interpolate(Channel(table, 1), x)),
      Round(interpolate(Channel(table, 2), x)),
      Round(interpolate(Channel(table, 3), x)),
      interpolate(Channel(table, 4), x)>>

(***************************************************************************)
(* The breakpoint tables of the scene (Images, Scene).  A colour is         *)
(* <<r, g, b, a>>: '#27282F' is <<39, 40, 47, 1>>.                           *)
(***************************************************************************)
\* const scrollMax = size.height * 4.5
ScrollMax(height) == RMul(R(height), Frac(9, 2))

ImageOpacityTable ==
    [range |-> <<R(0), R(500)>>, output |-> <<R(0), R(1)>>]

GlitchFactorTable(scrollMax) ==
    [range |-> <<R(0), RMul(scrollMax, Frac(1, 10)), RMul(scrollMax, Frac(34, 100)),
                 RMul(scrollMax, Frac(35, 100)), RMul(scrollMax, Frac(1, 2)),
                 RMul(scrollMax, Frac(8, 10))>>,
     output |-> <<R(5), R(0), Frac(4, 10), R(0), R(0)>>]

BackgroundColorTable(scrollMax) ==
    [range |-> <<R(0), RMul(scrollMax, Frac(1, 4)), RMul(scrollMax, Frac(8, 10)), scrollMax>>,
     output |-> << <<39, 40, 47, 1>>, <<36, 123, 160, 1>>,
                   <<112, 193, 179, 1>>, <<0, 184, 164, 1>> >>]

TextOpacityTable(scrollMax) ==
    [range |-> <<R(0), RMul(scrollMax, Frac(1, 4)), RMul(scrollMax, Frac(1, 2)), scrollMax>>,
     output |-> <<R(0), Frac(1, 2), Frac(8, 10), R(1)>>]

TableNames == {"imageOpacity", "glitchFactor", "backgroundColor", "textOpacity"}

SceneTable(name, height) ==
    CASE name = "imageOpacity" -> ImageOpacityTable
      [] name = "glitchFactor" -> GlitchFactorTable(ScrollMax(height))
      [] name = "backgroundColor" -> BackgroundColorTable(ScrollMax(height))
      [] name = "textOpacity" -> TextOpacityTable(ScrollMax(height))

\* What the scene object receives for table `name` at scroll value x.
SceneValue(name, height, x) ==
    IF name = "backgroundColor"
    THEN interpolateColor(SceneTable(name, height), x)
    ELSE interpolate(SceneTable(name, height), x)

\* An output of a table as a value of the kind SceneValue returns.
OutputValue(name, height, i) ==
    LET out == SceneTable(name, height).output
    IN  IF i \notin 1..Len(out) THEN Undefined
        ELSE IF name = "backgroundColor"
             THEN <<R(out[i][1]), R(out[i][2]), R(out[i][3]), R(out[i][4])>>
             ELSE out[i]

(***************************************************************************)
(* Spring signals (useSpring).  A signal component holds its current value, *)
(* its velocity and its target in fixed point; done says that it rests at   *)
(* its target, started that it has been integrated since it last left rest  *)
(* (the first frame of an animation only records the time).                 *)
(* No config is passed to useSpring, so the springs use the library's       *)
(* defaults: tension 170, friction 26, mass 1, precision 0.01, integrated   *)
(* in steps of one millisecond.                                             *)
(***************************************************************************)
FixedOne == 100 * 1000
Tension == 170
Friction == 26
Precision == FixedOne \div 100

\* The display's refresh rate: a frame lasts Math.floor(1000 / RefreshHz) ms.
RefreshHz == 60
FrameMs == 1000 \div RefreshHz

Fixed(i) == i * FixedOne

\* x * m / d, rounded toward zero, without forming x * m.
MulDiv(x, m, d) ==
    LET a == Abs(x)
        q == (a \div d) * m + ((a % d) * m) \div d
    IN  IF x < 0 THEN -q ELSE q

\* The number a fixed-point value stands for, read to three decimals.
ToR(v) == Frac(MulDiv(v, 1, FixedOne \div 1000), 1000)

\* The element of a singleton: The({e(x) : x \in {d}}) is e(d), with d
\* computed once.
The(S) == CHOOSE r \in S : TRUE

\* A step that leaves the friction out.
SpringStepUndamped(position, velocity, to) ==
    The({ <<position + MulDiv(v, 1, 1000), v>> :
          v \in {velocity + MulDiv(to - position, Tension, 1000)} })

\* One step of one millisecond:
\*   force = -tension * (position - to); damping = -friction * velocity
\*   velocity += (force + damping) / mass / 1000; position += velocity / 1000
SpringStep(position, velocity, to) ==
    The({ <<position + MulDiv(v, 1, 1000), v>> :
          v \in {velocity + MulDiv(to - position, Tension, 1000)
                          - MulDiv(velocity, Friction, 1000)} })

RECURSIVE SpringSteps(_, _, _, _)
SpringSteps(position, velocity, to, n) ==
    IF n = 0 THEN <<position, velocity>>
    ELSE The({ SpringSteps(s[1], s[2], to, n - 1) :
               s \in {SpringStep(position, velocity, to)} })

Resting(v) == [value |-> v, velocity |-> 0, target |-> v, done |-> TRUE, started |-> FALSE]

\* One frame of one component: integrate, then conclude the animation when
\* both the velocity and the displacement are within the precision, which
\* puts the value on the target.
TickComponent(c) ==
    IF c.done THEN c
    ELSE The({ LET end == /\ Abs(moved[2]) <= Precision
                          /\ Abs(c.target - moved[1]) <= Precision
               IN  [value |-> IF end THEN c.target ELSE moved[1],
                    velocity |-> moved[2],
                    target |-> c.target,
                    done |-> end,
                    started |-> TRUE] :
               moved \in {IF c.started
                          THEN SpringSteps(c.value, c.velocity, c.target, FrameMs)
                          ELSE <<c.value, c.velocity>>} })

TickSignal(cs) == [i \in 1..Len(cs) |-> TickComponent(cs[i])]

\* set({key: goal}) / useSpring({key: goal}) on re-render: a goal equal to
\* the previous one changes nothing; a new goal the value already has ends
\* the animation there; any other new goal becomes the target, and the
\* value and (while the animation is running) the velocity carry over.
SetGoal(cs, goal) ==
    LET hasNewGoal == \E i \in 1..Len(cs) : goal[i] # cs[i].target
        differs == \E i \in 1..Len(cs) : goal[i] # cs[i].value
        isActive == \E i \in 1..Len(cs) : ~cs[i].done
    IN  IF ~hasNewGoal THEN cs
        ELSE IF ~differs
        THEN [i \in 1..Len(cs) |-> [cs[i] EXCEPT !.target = goal[i], !.done = TRUE]]
        ELSE [i \in 1..Len(cs) |->
                [cs[i] EXCEPT !.target = goal[i],
                              !.done = FALSE,
                              !.velocity = IF isActive THEN @ ELSE 0,
                              !.started = IF isActive THEN @ ELSE FALSE]]

Active(cs) == \E i \in 1..Len(cs) : ~cs[i].done

(***************************************************************************)
(* The scene's parameters: what Scene, Images, Image and Text bind to the   *)
(* scene objects, as functions of the signals' current values.              *)
(***************************************************************************)
\* ./data: the image layers, [url, x, y, factor, z, scale] each.  Only the
\* base scale of a layer is used here.
NumLayers == 2
Layers == 1..NumLayers
DataScale(l) == Frac(l + 1, 2)

\* One of the two viewport sizes the canvas is given.
Sizes == {[width |-> 800, height |-> 600], [width |-> 400, height |-> 300]}
InitialSize == [width |-> 800, height |-> 600]

\* A hover goal that stays enlarged.
HoverGoalEnlarged(isHovered) == (11 * FixedOne) \div 10

\* useSpring({ factor: hovered ? 1.1 : 1 })
HoverGoal(isHovered) == IF isHovered THEN (11 * FixedOne) \div 10 ELSE FixedOne

\* scale={factor.interpolate(f => [scale * f, scale * f, 1])}
ImageScale(l, f) == <<RMul(DataScale(l), f), RMul(DataScale(l), f), R(1)>>

Compose(t, m, f, sz) ==
    LET x == ToR(t.value)
    IN  [imageOpacity |-> SceneValue("imageOpacity", sz.height, x),
         imageScale |-> [l \in Layers |-> ImageScale(l, ToR(f[l].value))],
         glitchFactor |-> SceneValue("glitchFactor", sz.height, x),
         backgroundColor |-> SceneValue("backgroundColor", sz.height, x),
         textOpacity |-> SceneValue("textOpacity", sz.height, x),
         lightPosition |-> <<RDiv(ToR(m[1].value), R(100)),
                             RDiv(RSub(R(0), ToR(m[2].value)), R(100)),
                             Frac(13, 2)>>,
         starsPosition |-> <<R(0), RMul(x, Frac(1, 4)), RMul(x, Frac(8, 10)), x>>,
         titlePosition |-> <<R(0), RAdd(R(-1), RDiv(x, R(2))), R(0)>>,
         subtitlePosition |-> <<R(0), RAdd(R(-1), RDiv(x, R(400))), R(0)>>]

(***************************************************************************)
(* The render pipeline (Effects) and the render loop.                       *)
(***************************************************************************)
\* ./postprocessing: a pass renders to an intermediate buffer unless it is
\* marked renderToScreen.
PassDefaultRenderToScreen == FALSE

\* A chain in which the scene pass is marked for the screen too.
EffectsPassesBothToScreen(sz) ==
    << [name |-> "renderPass", renderToScreen |-> TRUE,
        width |-> sz.width, height |-> sz.height],
       [name |-> "glitchPass", renderToScreen |-> TRUE,
        width |-> sz.width, height |-> sz.height] >>

\* <effectComposer> with its two children attached to `passes`, in order.
EffectsPasses(sz) ==
    << [name |-> "renderPass", renderToScreen |-> PassDefaultRenderToScreen,
        width |-> sz.width, height |-> sz.height],
       [name |-> "glitchPass", renderToScreen |-> TRUE,
        width |-> sz.width, height |-> sz.height] >>

\* ./postprocessing/EffectComposer: setSize resizes every pass's buffers.
ComposerSetSize(ps, w, h) ==
    [i \in 1..Len(ps) |-> [ps[i] EXCEPT !.width = w, !.height = h]]

\* The effects of a component, in the order of its hooks.
EffectsEffects(sz) ==
    << [name |-> "Effects.setSize", width |-> sz.width, height |-> sz.height],
       [name |-> "Effects.useRender", width |-> 0, height |-> 0] >>
StarsEffects == << [name |-> "Stars.useRender", width |-> 0, height |-> 0] >>

\* A subscription that leaves the default render in place.
EffectsRendersAlongside == FALSE

\* useRender(fn, takeOverRenderloop) of Effects.
EffectsTakesOver == TRUE

\* The effects of the first commit: Effects comes before Stars in Scene.
MountEffects(sz) == EffectsEffects(sz) \o StarsEffects

\* One effect, run on [subscribers, manual, passes].
RunEffect(st, e) ==
    CASE e.name = "Effects.setSize" ->
            [st EXCEPT !.passes = ComposerSetSize(st.passes, e.width, e.height)]
      [] e.name = "Effects.useRender" ->
            [st EXCEPT !.subscribers = Append(st.subscribers, "Effects.render"),
                       !.manual = st.manual \/ EffectsTakesOver]
      [] e.name = "Stars.useRender" ->
            [st EXCEPT !.subscribers = Append(st.subscribers, "Stars.rotate")]

RECURSIVE RunEffects(_, _)
RunEffects(st, es) ==
    IF es = <<>> THEN st ELSE RunEffects(RunEffect(st, Head(es)), Tail(es))

(***************************************************************************)
(* State.                                                                   *)
(***************************************************************************)
VARIABLES
    size,            \* the canvas size useThree() gives: [width, height]
    top,             \* the scroll signal: one component
    mouse,           \* the pointer signal: <<x component, y component>>
    hovered,         \* Image's hovered state, per layer
    factor,          \* Image's hover signal, per layer
    pendingEffects,  \* useEffect callbacks committed and not yet run
    subscribers,     \* the render loop's subscribers, in subscription order
    manual,          \* a subscriber has taken the render loop over
    passes,          \* composer.passes, each with its buffer size
    theta,           \* Stars' phase, in steps of 0.01 degrees
    starsPhase,      \* the phase the stars group's rotation and scale show
    lastFrame,       \* history: what the latest animation frame did
    hist,            \* history: the targets set since the latest tick
    inputsLeft,      \* history: input events the run still takes
    nFrames,         \* history: animation frames so far
    probe            \* an interpolation query: table, x, result

vars == <<size, top, mouse, hovered, factor, pendingEffects, subscribers,
          manual, passes, theta, starsPhase, lastFrame, hist, inputsLeft, nFrames, probe>>

\* Bounds of the model.
MaxInputs == 2
MaxBurstInputs == 3
MaxFrames == 4

\* Scroll offsets (e.target.scrollTop) and pointer positions (clientX, clientY).
ScrollOffsets == {0, 100, 600}
PointerPositions == {<<400, 300>>, <<800, 450>>, <<0, 0>>}

\* The inputs of an interpolation query.
ProbeInputs == {-100, 0, 135, 250, 500, 675, 1000, 1350, 2000, 2700, 3000, 9999}

Signals(t, m, f) == [top |-> t, mouse |-> m, factor |-> f]
InitialSignals ==
    Signals(Resting(0), <<Resting(0), Resting(0)>>,
            [l \in Layers |-> Resting(HoverGoal(FALSE))])

NoFrame ==
    [paths |-> <<>>, attached |-> FALSE, starsAtRender |-> 0, thetaAfter |-> 0,
     passesAtRender |-> <<>>, sizeAtRender |-> InitialSize,
     tickDue |-> FALSE, tickedBeforeRender |-> FALSE,
     signalsAtRender |-> InitialSignals, signalsOfTick |-> InitialSignals]

NoHistory ==
    [topSets |-> <<>>, mouseSets |-> <<>>,
     topAtTick |-> Resting(0), mouseAtTick |-> <<Resting(0), Resting(0)>>,
     topBurst |-> <<>>, mouseBurst |-> <<>>,
     topFrom |-> 0, topFromRest |-> FALSE, topTicks |-> 0,
     lastHover |-> [l \in Layers |-> "none"]]

NoProbe == [table |-> "imageOpacity", x |-> 0, result |-> NaN, done |-> FALSE]

\* The state after ReactDOM.render has committed the tree: the signals rest
\* at their initial values, the scene objects exist with their parameters
\* bound, and the components' effects are still to run.
InitWith(sz, pr, inputs) ==
    /\ size = sz
    /\ top = InitialSignals.top
    /\ mouse = InitialSignals.mouse
    /\ hovered = [l \in Layers |-> FALSE]
    /\ factor = InitialSignals.factor
    /\ pendingEffects = MountEffects(sz)
    /\ subscribers = <<>>
    /\ manual = FALSE
    /\ passes = EffectsPasses(sz)
    /\ theta = 0
    /\ starsPhase = 0
    /\ lastFrame = [NoFrame EXCEPT !.sizeAtRender = sz]
    /\ hist = NoHistory
    /\ inputsLeft = inputs
    /\ nFrames = 0
    /\ probe = pr

Init == InitWith(InitialSize, NoProbe, MaxInputs)

\* The parameters bound to the scene objects.  An animated binding pushes
\* every change of a signal's value to its object as it happens, and a
\* re-render binds anew, so the objects always show the current values.
Params == Compose(top, mouse, factor, size)

(***************************************************************************)
(* Input handlers.                                                          *)
(***************************************************************************)
\* onScroll: set({ top: e.target.scrollTop })
OnScroll(offset) ==
    /\ inputsLeft > 0
    /\ inputsLeft' = inputsLeft - 1
    /\ top' = SetGoal(<<top>>, <<Fixed(offset)>>)[1]
    /\ hist' = [hist EXCEPT !.topSets = Append(@, Fixed(offset)),
                            !.topFrom = IF top'.target # top.target THEN top.value ELSE @,
                            !.topFromRest = IF top'.target # top.target THEN top.done ELSE @,
                            !.topTicks = IF top'.target # top.target THEN 0 ELSE @]
    /\ UNCHANGED <<size, mouse, hovered, factor, pendingEffects, subscribers,
                   manual, passes, theta, starsPhase, lastFrame, nFrames, probe>>

\* onMouseMove: set({ mouse: [x - window.innerWidth / 2, y - window.innerHeight / 2] })
MouseGoal(pos, sz) ==
    <<Fixed(pos[1]) - Fixed(sz.width) \div 2, Fixed(pos[2]) - Fixed(sz.height) \div 2>>

OnMouseMove(pos) ==
    /\ inputsLeft > 0
    /\ inputsLeft' = inputsLeft - 1
    /\ mouse' = SetGoal(mouse, MouseGoal(pos, size))
    /\ hist' = [hist EXCEPT !.mouseSets = Append(@, MouseGoal(pos, size))]
    /\ UNCHANGED <<size, top, hovered, factor, pendingEffects, subscribers,
                   manual, passes, theta, starsPhase, lastFrame, nFrames, probe>>

(***************************************************************************)
(* The springs' frame: every running signal is integrated, and the values   *)
(* are pushed to the scene objects bound to them.                           *)
(***************************************************************************)
SpringsActive == ~top.done \/ Active(mouse) \/ \E l \in Layers : ~factor[l].done

TickedHistory(h, t0, t1, m1) ==
    [h EXCEPT !.topSets = <<>>, !.mouseSets = <<>>,
              !.topBurst = IF h.topSets = <<>> THEN @ ELSE h.topSets,
              !.mouseBurst = IF h.mouseSets = <<>> THEN @ ELSE h.mouseSets,
              !.topAtTick = t1, !.mouseAtTick = m1,
              !.topTicks = IF t0.done THEN @ ELSE @ + 1]

SpringUpdate ==
    /\ SpringsActive
    /\ top' = TickComponent(top)
    /\ mouse' = TickSignal(mouse)
    /\ factor' = [l \in Layers |-> TickComponent(factor[l])]
    /\ hist' = TickedHistory(hist, top, top', mouse')
    /\ UNCHANGED <<size, hovered, pendingEffects, subscribers, manual, passes, theta,
                   starsPhase, lastFrame, inputsLeft, nFrames, probe>>

(***************************************************************************)
(* React: effects, and the handlers that re-render.  A passive effect runs  *)
(* some time after the commit that scheduled it, and at the latest before   *)
(* the next render of the tree.                                             *)
(***************************************************************************)
Wiring == [subscribers |-> subscribers, manual |-> manual, passes |-> passes]
Flushed == RunEffects(Wiring, pendingEffects)

FlushPassiveEffects ==
    /\ pendingEffects # <<>>
    /\ subscribers' = Flushed.subscribers
    /\ manual' = Flushed.manual
    /\ passes' = Flushed.passes
    /\ pendingEffects' = <<>>
    /\ UNCHANGED <<size, top, mouse, hovered, factor, theta, starsPhase, lastFrame,
                   hist, inputsLeft, nFrames, probe>>

\* The canvas is resized: useThree() gives the new size, Scene and Effects
\* render again, and Effects' [size] effect is scheduled.
Resize(sz) ==
    /\ inputsLeft > 0
    /\ sz # size
    /\ inputsLeft' = inputsLeft - 1
    /\ size' = sz
    /\ subscribers' = Flushed.subscribers
    /\ manual' = Flushed.manual
    /\ passes' = Flushed.passes
    /\ pendingEffects' = <<EffectsEffects(sz)[1]>>
    /\ UNCHANGED <<top, mouse, hovered, factor, theta, starsPhase, lastFrame, hist, nFrames, probe>>

\* onHover / onUnhover of Image l: setHover, and the render it causes gives
\* useSpring the new goal.  Setting the state it already has renders nothing.
SetHover(l, h) ==
    /\ inputsLeft > 0
    /\ inputsLeft' = inputsLeft - 1
    /\ hist' = [hist EXCEPT !.lastHover[l] = IF h THEN "enter" ELSE "exit"]
    /\ IF hovered[l] = h
       THEN UNCHANGED <<hovered, factor, subscribers, manual, passes, pendingEffects>>
       ELSE /\ hovered' = [hovered EXCEPT ![l] = h]
            /\ factor' = [factor EXCEPT ![l] = SetGoal(<<factor[l]>>, <<HoverGoal(h)>>)[1]]
            /\ subscribers' = Flushed.subscribers
            /\ manual' = Flushed.manual
            /\ passes' = Flushed.passes
            /\ pendingEffects' = <<>>
    /\ UNCHANGED <<size, top, mouse, theta, starsPhase, lastFrame, nFrames, probe>>

OnHover(l) == SetHover(l, TRUE)
OnUnhover(l) == SetHover(l, FALSE)

(***************************************************************************)
(* The render loop: every frame it calls the subscribers in subscription    *)
(* order and then, unless a subscriber has taken the loop over, renders the *)
(* scene itself.                                                            *)
(***************************************************************************)
\* The callbacks given to useRender, on [theta, starsPhase, paths, starsAtRender].
RunSubscriber(acc, name) ==
    CASE name = "Effects.render" ->
            [acc EXCEPT !.paths = Append(@, "composer.render"),
                        !.starsAtRender = acc.starsPhase]
      [] name = "Stars.rotate" ->
            [acc EXCEPT !.theta = @ + 1, !.starsPhase = acc.theta + 1]

RECURSIVE RunSubscribers(_, _)
RunSubscribers(acc, subs) ==
    IF subs = <<>> THEN acc
    ELSE RunSubscribers(RunSubscriber(acc, Head(subs)), Tail(subs))

DefaultRender(acc, isManual) ==
    IF isManual THEN acc
    ELSE [acc EXCEPT !.paths = Append(@, "gl.render"), !.starsAtRender = acc.starsPhase]

RenderLoop(subs, isManual) ==
    DefaultRender(
        RunSubscribers([theta |-> theta, starsPhase |-> starsPhase,
                        paths |-> <<>>, starsAtRender |-> starsPhase], subs),
        isManual)

Range(f) == {f[i] : i \in DOMAIN f}

\* One animation frame of the browser.  The render loop and the springs each
\* have a requestAnimationFrame callback of their own; the frame runs both
\* (the springs' only while a signal is moving), in the order they were
\* registered, which index.js does not determine.
AnimationFrame ==
    /\ nFrames < MaxFrames
    /\ nFrames' = nFrames + 1
    /\ top' = TickComponent(top)
    /\ mouse' = TickSignal(mouse)
    /\ factor' = [l \in Layers |-> TickComponent(factor[l])]
    /\ hist' = IF SpringsActive THEN TickedHistory(hist, top, top', mouse') ELSE hist
    /\ \E springFirst \in BOOLEAN :
        LET loop == RenderLoop(subscribers, manual)
        IN  /\ theta' = loop.theta
            /\ starsPhase' = loop.starsPhase
            /\ lastFrame' =
                 [paths |-> loop.paths,
                  attached |-> "Effects.render" \in Range(subscribers),
                  starsAtRender |-> loop.starsAtRender,
                  thetaAfter |-> loop.theta,
                  passesAtRender |-> passes,
                  sizeAtRender |-> size,
                  tickDue |-> SpringsActive,
                  tickedBeforeRender |-> SpringsActive /\ springFirst,
                  signalsAtRender |-> IF springFirst
                                      THEN Signals(top', mouse', factor')
                                      ELSE Signals(top, mouse, factor),
                  signalsOfTick |-> Signals(top', mouse', factor')]
    /\ UNCHANGED <<size, hovered, pendingEffects, subscribers, manual, passes, inputsLeft, probe>>

(***************************************************************************)
(* An interpolation query against a table of the scene.                     *)
(***************************************************************************)
Evaluate ==
    /\ ~probe.done
    /\ probe' = [probe EXCEPT !.result = SceneValue(probe.table, size.height, R(probe.x)),
                              !.done = TRUE]
    /\ UNCHANGED <<size, top, mouse, hovered, factor, pendingEffects, subscribers, manual,
                   passes, theta, starsPhase, lastFrame, hist, inputsLeft, nFrames>>

(***************************************************************************)
(* Specifications.                                                          *)
(***************************************************************************)
\* The whole scene: inputs, effects and animation frames.
Next ==
    \/ \E o \in ScrollOffsets : OnScroll(o)
    \/ \E q \in PointerPositions : OnMouseMove(q)
    \/ \E sz \in Sizes : Resize(sz)
    \/ FlushPassiveEffects
    \/ AnimationFrame

Spec == Init /\ [][Next]_vars

\* The signal store under bursts of input: scroll and pointer events between
\* the first few animation frames.
InitBurst == InitWith(InitialSize, NoProbe, MaxBurstInputs)

NextBurst ==
    \/ \E o \in ScrollOffsets : OnScroll(o)
    \/ \E q \in PointerPositions : OnMouseMove(q)
    \/ AnimationFrame

SpecBurst == InitBurst /\ [][NextBurst]_vars

\* The scroll signal alone, with the frames that integrate it: an animating
\* spring is ticked on every animation frame.
NextScroll ==
    \/ \E offset \in ScrollOffsets : OnScroll(offset)
    \/ SpringUpdate

SpecScroll == Init /\ [][NextScroll]_vars /\ WF_vars(SpringUpdate)

\* The hover signals of the image layers.
NextHover ==
    \/ \E l \in Layers : OnHover(l)
    \/ \E l \in Layers : OnUnhover(l)
    \/ SpringUpdate

SpecHover == Init /\ [][NextHover]_vars /\ WF_vars(SpringUpdate)

\* The interpolation engine: a query drawn at the start, then evaluated.
InitInterpolate ==
    \E sz \in Sizes : \E t \in TableNames : \E x \in ProbeInputs :
        InitWith(sz, [table |-> t, x |-> x, result |-> NaN, done |-> FALSE], MaxInputs)

SpecInterpolate == InitInterpolate /\ [][Evaluate]_vars

(***************************************************************************)
(* Properties.                                                              *)
(***************************************************************************)
InUnitInterval(a) == RLe(R(0), a) /\ RLe(a, R(1))

\* C1: interpolate(table, x) is clamped, for each scroll-driven table of the
\* scene: below the first breakpoint the result is the first output, above
\* the last breakpoint it is the last output; for [(0,0),(500,1)], 250 gives
\* 0.5, -100 gives 0 and 9999 gives 1.
InterpolateClamps ==
    probe.done =>
        LET range == SceneTable(probe.table, size.height).range
            x == R(probe.x)
        IN  /\ RLt(x, range[1]) => probe.result = OutputValue(probe.table, size.height, 1)
            /\ RGt(x, range[Len(range)]) =>
                   probe.result = OutputValue(probe.table, size.height, Len(range))
            /\ probe.table = "imageOpacity" /\ probe.x = 250 => probe.result = Frac(1, 2)

\* C2: in every reachable state of the scene, the opacity computed for the
\* image layers and for the text sprite lies in [0, 1].
OpacityInUnitInterval ==
    /\ InUnitInterval(Params.imageOpacity)
    /\ InUnitInterval(Params.textOpacity)

\* C3: every breakpoint table of the scene is well formed: at least one
\* entry, as many domain values as outputs, domain values strictly
\* increasing, whatever the viewport height.
WellFormed(table) ==
    /\ Len(table.range) >= 1
    /\ Len(table.range) = Len(table.output)
    /\ \A i \in 1..(Len(table.range) - 1) : RLt(table.range[i], table.range[i + 1])

TablesWellFormed == \A name \in TableNames : WellFormed(SceneTable(name, size.height))

\* C4: exactly one pass of the pipeline renders to the screen, and it is the
\* last pass of the chain: [renderPass, glitchPass], only glitchPass marked.
OneScreenPassLast ==
    /\ Len(passes) >= 1
    /\ \A i \in 1..Len(passes) : passes[i].renderToScreen <=> i = Len(passes)
    /\ [i \in 1..Len(passes) |-> passes[i].name] = <<"renderPass", "glitchPass">>

PipelineRendered ==
    /\ "composer.render" \in Range(lastFrame.paths)
    /\ Len(lastFrame.passesAtRender) = 2

\* C5: once the pipeline is attached, a frame is drawn through exactly one
\* render path: the composer renders once and the default render not at all.
OneRenderPathPerFrame ==
    /\ lastFrame.attached => lastFrame.paths = <<"composer.render">>
    /\ Len(lastFrame.paths) <= 1

AttachedFrameDrawn ==
    /\ lastFrame.attached
    /\ nFrames >= 2
    /\ manual

\* C6: in every frame the steps run in the order: spring tick, phase
\* advance, parameter composition, renderFrame; so what renderFrame draws is
\* the parameters of that frame's tick and that frame's phase.
RenderSeesThisFrame ==
    "composer.render" \in Range(lastFrame.paths) =>
        /\ lastFrame.starsAtRender = lastFrame.thetaAfter
        /\ lastFrame.tickDue => lastFrame.tickedBeforeRender
        /\ lastFrame.signalsAtRender = lastFrame.signalsOfTick

\* C7: no renderFrame runs while the buffer size of a pass differs from the
\* viewport size.
BuffersMatchViewportAtRender ==
    "composer.render" \in Range(lastFrame.paths) =>
        \A i \in 1..Len(lastFrame.passesAtRender) :
            /\ lastFrame.passesAtRender[i].width = lastFrame.sizeAtRender.width
            /\ lastFrame.passesAtRender[i].height = lastFrame.sizeAtRender.height

\* What of a component can be observed: at rest, the velocity it stopped
\* with and whether it had been integrated no longer matter.
Observed(c) ==
    [value |-> c.value, target |-> c.target, done |-> c.done,
     velocity |-> IF c.done THEN 0 ELSE c.velocity,
     started |-> IF c.done THEN FALSE ELSE c.started]
ObservedSignal(cs) == [i \in 1..Len(cs) |-> Observed(cs[i])]

Last(q) == q[Len(q)]

\* C8: when several events set a signal's target between two ticks, the next
\* tick leaves the signal as if only the latest of them had been set: the
\* target is the latest one, and value and velocity are those of integrating
\* toward it from the state of the previous tick.
LatestTargetWins ==
    [][ (hist'.topSets = <<>> /\ hist'.mouseSets = <<>>) =>
          /\ hist.topSets # <<>> =>
               /\ top'.target = Last(hist.topSets)
               /\ Observed(top') =
                    Observed(TickComponent(SetGoal(<<hist.topAtTick>>,
                                                   <<Last(hist.topSets)>>)[1]))
          /\ hist.mouseSets # <<>> =>
               /\ [i \in 1..2 |-> mouse'[i].target] = Last(hist.mouseSets)
               /\ ObservedSignal(mouse') =
                    ObservedSignal(TickSignal(SetGoal(hist.mouseAtTick,
                                                      Last(hist.mouseSets))))
      ]_vars

\* C9: a signal whose target stops changing settles: ticks bring the value
\* onto the target within a bounded number of frames and the signal then
\* stays at rest there with a velocity within the precision; from rest at 0
\* toward 100 the value is at least 95 after 60 frames.
SettleFrames == 100
ScenarioTicks == 60

SettlesWithinBound ==
    /\ hist.topTicks <= SettleFrames
    /\ \A c \in {top} \cup Range(mouse) \cup Range(factor) :
          c.done => c.value = c.target /\ Abs(c.velocity) <= Precision
    /\ (/\ hist.topFromRest
        /\ hist.topFrom = Fixed(0)
        /\ top.target = Fixed(100)
        /\ hist.topTicks >= ScenarioTicks) => top.value >= Fixed(95)

SpringSettles ==
    /\ []SettlesWithinBound
    /\ <>[](~SpringsActive)

ScenarioReached ==
    /\ hist.topFromRest
    /\ hist.topFrom = Fixed(0)
    /\ top.target = Fixed(100)
    /\ hist.topTicks = ScenarioTicks
    /\ top.value >= Fixed(95)
    /\ ~top.done

\* C10: a layer's hover target is 1.1 iff the layer's last hover event was an
\* enter, and 1 otherwise; a hover event on one layer leaves the other
\* layers' signals alone; the scale of a layer is its base scale times its
\* hover factor in x and y, and 1 in z; after an exit the scale returns to
\* the base scale unless the layer is entered again.
BaseScale(l) == <<DataScale(l), DataScale(l), R(1)>>

HoverTargets ==
    \A l \in Layers :
        /\ factor[l].target = IF hist.lastHover[l] = "enter"
                              THEN (11 * FixedOne) \div 10 ELSE FixedOne
        /\ Params.imageScale[l] = <<RMul(DataScale(l), ToR(factor[l].value)),
                                    RMul(DataScale(l), ToR(factor[l].value)),
                                    R(1)>>

HoverIndependent ==
    inputsLeft' # inputsLeft =>
        \A l \in Layers : hist'.lastHover[l] = hist.lastHover[l] => factor'[l] = factor[l]

HoverScale ==
    /\ []HoverTargets
    /\ [][HoverIndependent]_vars
    /\ \A l \in Layers :
          (hist.lastHover[l] = "exit") ~>
              (\/ hist.lastHover[l] = "enter"
               \/ factor[l].value = FixedOne /\ Params.imageScale[l] = BaseScale(l))

ScaleReturned ==
    \E l \in Layers :
        /\ hist.lastHover[l] = "exit"
        /\ factor[l].done
        /\ factor[l].velocity # 0
        /\ Params.imageScale[l] = BaseScale(l)

=============================================================================
